---- MODULE Spec2Model ----
(***************************************************************************)
(* Model of the nested-set indexer core (src/src/data.rs): Node, Graph,    *)
(* Graph::new, is_dag, build_child_map, dag_to_tree, complement_leaf and   *)
(* build_index.                                                            *)
(*                                                                         *)
(* Strings are sequences of one-character strings, so that format!         *)
(* concatenation is sequence concatenation and two different ways of       *)
(* producing the same text give equal values.  Option<T> is a sequence of  *)
(* length 0 (None) or 1 (Some).  Vector positions are 0-based as in the    *)
(* code; At(v, i) reads position i.                                        *)
(***************************************************************************)
EXTENDS Integers, Sequences, FiniteSets, TLC

\* ------------------------------------------------------------------ bounds

\* Longest record sequence the input boundary hands to Graph::new.
MaxLen == 4

\* The same for inputs over SepIds.
MaxLenSep == 3

\* The same for inputs that list the root first and every parent before its
\* children.
MaxLenDag == 5

\* The same for inputs over PreIds.
MaxLenPre == 3

\* ------------------------------------------------------------- basic types

None == <<>>

Some(x) == <<x>>

IsSome(o) == Len(o) = 1

Unwrap(o) == o[1]

At(v, i) == v[i + 1]

\* const SEPARATOR: &'static str = "__";
SEPARATOR == <<"_", "_">>

Digit == <<"0", "1", "2", "3", "4", "5", "6", "7", "8", "9">>

\* Display of a usize: its decimal digits.
RECURSIVE UsizeToString(_)
UsizeToString(k) ==
    IF k < 10 THEN <<Digit[k + 1]>>
    ELSE UsizeToString(k \div 10) \o <<Digit[(k % 10) + 1]>>

\* Identities the input records draw from, in the order of their first use.
IdSeq == <<<<"a">>, <<"b">>, <<"c">>>>

\* Identities for inputs in which an identity already ends in the separator
\* and a number.
SepIds == {<<"a">>, <<"b">>, <<"a">> \o SEPARATOR \o <<"1">>}

\* Identities for inputs in which an identity already starts with "c" and the
\* separator.
PreIds == {<<"a">>, <<"b">>, <<"c">> \o SEPARATOR \o <<"a">>}

\* struct Node, as deserialized: only id, label, parent and leaf are read,
\* every other field starts as None.
RawNode(id, label, parent, leaf) ==
    [pid |-> None, node |-> id, origin |-> None, label |-> label,
     parent_node |-> parent, parent_id |-> None, leaf |-> leaf,
     lft |-> None, rgt |-> None, count |-> None]

\* ------------------------------------------------------------- Graph::new

\* The loop of Graph::new from position i on, root being the root found so
\* far.  Result: <<error, root>>.
\* NewScan keeping the last parentless node instead of failing on a second.
RECURSIVE NewScanLastRoot(_, _, _)
NewScanLastRoot(ns, i, root) ==
    IF i >= Len(ns) THEN
        IF IsSome(root) THEN <<"ok", Unwrap(root)>>
        ELSE <<"RootNodeNotFoundError", 0>>
    ELSE IF At(ns, i).parent_node = None THEN NewScanLastRoot(ns, i + 1, Some(i))
    ELSE NewScanLastRoot(ns, i + 1, root)

RECURSIVE NewScan(_, _, _)
NewScan(ns, i, root) ==
    IF i >= Len(ns) THEN
        IF IsSome(root) THEN <<"ok", Unwrap(root)>>
        ELSE <<"RootNodeNotFoundError", 0>>
    ELSE IF At(ns, i).parent_node = None THEN
        IF root = None THEN NewScan(ns, i + 1, Some(i))
        ELSE <<"MultipleRootNodeError", 0>>
    ELSE NewScan(ns, i + 1, root)

GraphNew(ns) == NewScan(ns, 0, None)

\* ------------------------------------------------------------ Graph::is_dag

\* The loop of is_dag from position i on, set holding the non-leaf
\* identities inserted so far.
\* IsDagScan inserting every identity, leaf or not.
RECURSIVE IsDagScanAnyNode(_, _, _)
IsDagScanAnyNode(ns, i, set) ==
    IF i >= Len(ns) THEN FALSE
    ELSE IF At(ns, i).node \in set THEN TRUE
    ELSE IsDagScanAnyNode(ns, i + 1, set \cup {At(ns, i).node})

RECURSIVE IsDagScan(_, _, _)
IsDagScan(ns, i, set) ==
    IF i >= Len(ns) THEN FALSE
    ELSE IF ~At(ns, i).leaf /\ At(ns, i).node \in set THEN TRUE
    ELSE IF ~At(ns, i).leaf THEN IsDagScan(ns, i + 1, set \cup {At(ns, i).node})
    ELSE IsDagScan(ns, i + 1, set)

IsDag(ns) == IsDagScan(ns, 0, {})

\* --------------------------------------------------- Graph::build_child_map

EmptyMap == [k \in {} |-> 0]

\* HashMap::get
Get(m, k) == IF k \in DOMAIN m THEN Some(m[k]) ELSE None

\* HashMap::insert
Insert(m, k, v) == [x \in DOMAIN m \cup {k} |-> IF x = k THEN v ELSE m[x]]

\* ChildMapLoop listing each child under its own identity.
RECURSIVE ChildMapLoopOwnKey(_, _, _)
ChildMapLoopOwnKey(ns, i, m) ==
    IF i >= Len(ns) THEN m
    ELSE IF IsSome(At(ns, i).parent_node) THEN
        LET own == At(ns, i).node
            old == IF own \in DOMAIN m THEN m[own] ELSE <<>>
        IN  ChildMapLoopOwnKey(ns, i + 1, Insert(m, own, Append(old, <<i, own>>)))
    ELSE ChildMapLoopOwnKey(ns, i + 1, m)

\* ChildMapLoop putting each child in front of the list.
RECURSIVE ChildMapLoopPrepend(_, _, _)
ChildMapLoopPrepend(ns, i, m) ==
    IF i >= Len(ns) THEN m
    ELSE IF IsSome(At(ns, i).parent_node) THEN
        LET parent == Unwrap(At(ns, i).parent_node)
            old    == IF parent \in DOMAIN m THEN m[parent] ELSE <<>>
        IN  ChildMapLoopPrepend(ns, i + 1,
                Insert(m, parent, <<<<i, At(ns, i).node>>>> \o old))
    ELSE ChildMapLoopPrepend(ns, i + 1, m)

\* The loop of build_child_map from position i on: every node with a parent
\* identity is pushed, as (position, identity), on the list of that parent
\* identity.
RECURSIVE ChildMapLoop(_, _, _)
ChildMapLoop(ns, i, m) ==
    IF i >= Len(ns) THEN m
    ELSE IF IsSome(At(ns, i).parent_node) THEN
        LET parent == Unwrap(At(ns, i).parent_node)
            old    == IF parent \in DOMAIN m THEN m[parent] ELSE <<>>
        IN  ChildMapLoop(ns, i + 1, Insert(m, parent, Append(old, <<i, At(ns, i).node>>)))
    ELSE ChildMapLoop(ns, i + 1, m)

BuildChildMap(ns) == ChildMapLoop(ns, 0, EmptyMap)

\* ------------------------------------------------------- Graph::dag_to_tree

\* format!("{}{}{}", node.node, SEPARATOR, *branch)
Rename(id, branch) == id \o SEPARATOR \o UsizeToString(branch)

\* Branch counting the first occurrence as 1.
BranchFromOne(visited, child) == IF child \in DOMAIN visited THEN visited[child] + 1 ELSE 1

\* visited.entry(child).and_modify(|c| *c += 1).or_insert(0)
Branch(visited, child) == IF child \in DOMAIN visited THEN visited[child] + 1 ELSE 0

\* EmitChild renaming a repeated leaf as well.
EmitChildRenameLeaf(ns, out, i, new, branch) ==
    LET node == [At(ns, i) EXCEPT !.parent_node = Some(At(out, new).node)]
    IN  IF branch # 0
        THEN [node EXCEPT !.origin = Some(node.node),
                          !.node = node.node \o SEPARATOR \o UsizeToString(branch)]
        ELSE node

\* EmitChild keeping the parent identity the child had in the input.
EmitChildInputParent(ns, out, i, new, branch) ==
    LET node == At(ns, i)
    IN  IF ~node.leaf /\ branch # 0
        THEN [node EXCEPT !.origin = Some(node.node),
                          !.node = Rename(node.node, branch)]
        ELSE node

\* The copy of the child at position i emitted under the emitted parent copy
\* at position new of the output, the child's identity having been seen
\* branch times before.
EmitChild(ns, out, i, new, branch) ==
    LET node == [At(ns, i) EXCEPT !.parent_node = Some(At(out, new).node)]
    IN  IF ~node.leaf /\ branch # 0
        THEN [node EXCEPT !.origin = Some(node.node),
                          !.node = Rename(node.node, branch)]
        ELSE node

\* DagChildren queueing a child only at the first occurrence of its identity.
RECURSIVE DagChildrenQueueFirst(_, _, _, _, _, _)
DagChildrenQueueFirst(ns, children, k, new, path, st) ==
    IF k > Len(children) THEN st
    ELSE IF children[k][1] \in path THEN [st EXCEPT !.status = "diverged"]
    ELSE
        LET i      == children[k][1]
            child  == children[k][2]
            branch == Branch(st.visited, child)
            node   == EmitChild(ns, st.out, i, new, branch)
            out2   == Append(st.out, node)
        IN  DagChildrenQueueFirst(ns, children, k + 1, new, path,
                [st EXCEPT !.visited = Insert(st.visited, child, branch),
                           !.out = out2,
                           !.from = Append(st.from, Some(new)),
                           !.queue = IF branch = 0
                                     THEN Append(st.queue, <<i, Len(out2) - 1, path \cup {i}>>)
                                     ELSE st.queue])

\* The body of `for (i, child) in children`, from the k-th child on.  st is
\* the loop state [out, from, queue, visited, status]; from (not in the code)
\* keeps, for each node of out, the position new it was pushed under; a queue
\* entry is <<orig, new, path>>, where path (not in the code) is the set of
\* positions from the root to the entry.  A child whose position is on the path of its
\* parent is expanded again below itself, and so on: the while loop never
\* ends, and the status becomes "diverged".
RECURSIVE DagChildren(_, _, _, _, _, _)
DagChildren(ns, children, k, new, path, st) ==
    IF k > Len(children) THEN st
    ELSE IF children[k][1] \in path THEN [st EXCEPT !.status = "diverged"]
    ELSE
        LET i      == children[k][1]
            child  == children[k][2]
            branch == Branch(st.visited, child)
            node   == EmitChild(ns, st.out, i, new, branch)
            out2   == Append(st.out, node)
        IN  DagChildren(ns, children, k + 1, new, path,
                [st EXCEPT !.visited = Insert(st.visited, child, branch),
                           !.out = out2,
                           !.from = Append(st.from, Some(new)),
                           !.queue = Append(st.queue, <<i, Len(out2) - 1, path \cup {i}>>)])

\* while let Some((orig, new)) = queue.pop_front()
RECURSIVE DagLoop(_, _, _)
DagLoop(ns, child_map, st) ==
    IF st.status = "diverged" \/ st.queue = <<>> THEN st
    ELSE
        LET orig     == Head(st.queue)[1]
            new      == Head(st.queue)[2]
            path     == Head(st.queue)[3]
            popped   == [st EXCEPT !.queue = Tail(st.queue)]
            children == Get(child_map, At(ns, orig).node)
        IN  IF IsSome(children)
            THEN DagLoop(ns, child_map,
                    DagChildren(ns, Unwrap(children), 1, new, path, popped))
            ELSE DagLoop(ns, child_map, popped)

\* dag_to_tree on the graph (ns, r): [out, from, queue, visited, status]; the new
\* graph is (out, 0) when status is "ok".
DagToTree(ns, r) ==
    DagLoop(ns, BuildChildMap(ns),
        [out |-> <<At(ns, r)>>, from |-> <<None>>, queue |-> <<<<r, 0, {r}>>>>,
         visited |-> EmptyMap, status |-> "ok"])

\* --------------------------------------------------- Graph::complement_leaf

\* PushUnlessExist keyed by the identity alone.
PushUnlessExistByNode(st, node) ==
    IF node.node \in st.set THEN st
    ELSE [out |-> Append(st.out, node), set |-> st.set \cup {node.node}]

\* push_unless_exist: st is [out, set].
PushUnlessExist(st, node) ==
    IF <<node.node, node.parent_node>> \in st.set THEN st
    ELSE [out |-> Append(st.out, node),
          set |-> st.set \cup {<<node.node, node.parent_node>>}]

Classification(node) ==
    [node EXCEPT !.node = <<"c">> \o SEPARATOR \o node.node,
                 !.parent_node = IF IsSome(node.parent_node)
                                 THEN Some(<<"c">> \o SEPARATOR \o Unwrap(node.parent_node))
                                 ELSE None,
                 !.leaf = FALSE]

LeafCopy(node) ==
    [node EXCEPT !.parent_node = Some(Classification(node).node),
                 !.leaf = TRUE]

\* for node in self.nodes.iter()
RECURSIVE ComplementLoop(_, _, _)
ComplementLoop(ns, i, st) ==
    IF i >= Len(ns) THEN st
    ELSE ComplementLoop(ns, i + 1,
            PushUnlessExist(PushUnlessExist(st, Classification(At(ns, i))),
                            LeafCopy(At(ns, i))))

\* complement_leaf: the new graph is (result, 0).
ComplementLeaf(ns) == ComplementLoop(ns, 0, [out |-> <<>>, set |-> {}]).out

\* ------------------------------------------------------- Graph::build_index

\* Result of fill: the vector as mutated so far, the counter returned, and
\* "ok", "ParentNodeNotFoundError" or "diverged".
FillResult(ns, n, status) == [nodes |-> ns, n |-> n, status |-> status]

\* The first block of fill: lft, then the parent lookup.
FillEnter(ns, parent_map, i, n) ==
    LET ns1 == [ns EXCEPT ![i + 1].lft = Some(n)]
        node == At(ns1, i)
    IN  IF IsSome(node.parent_node) THEN
            LET pi == Get(parent_map, Unwrap(node.parent_node))
            IN  IF IsSome(pi)
                THEN FillResult([ns1 EXCEPT ![i + 1].parent_id = Some(Unwrap(pi))], n, "ok")
                ELSE FillResult(ns1, n, "ParentNodeNotFoundError")
        ELSE FillResult(ns1, n, "ok")

\* CloseParent leaving a gap of one before rgt.
CloseParentGap(ns, i, n2, children) ==
    FillResult([ns EXCEPT ![i + 1].rgt = Some(n2 + 2),
                          ![i + 1].count = Some(Len(children))],
               n2 + 2, "ok")

\* The Some(children) arm after its loop: rgt, count and the returned counter.
CloseParent(ns, i, n2, children) ==
    FillResult([ns EXCEPT ![i + 1].rgt = Some(n2 + 1),
                          ![i + 1].count = Some(Len(children))],
               n2 + 1, "ok")

\* The None arm: a node without an entry in child_map.
CloseLeaf(ns, i, n) ==
    FillResult([ns EXCEPT ![i + 1].rgt = Some(n + 1),
                          ![i + 1].count = Some(0)],
               n + 1, "ok")

\* fill(nodes, child_map, parent_map, i, n).  path (not in the code) is the
\* set of positions of the frames below this one; a frame for a position on
\* the path repeats the frame below it, and the recursion never returns:
\* "diverged".
RECURSIVE Fill(_, _, _, _, _, _), FillChildren(_, _, _, _, _, _, _)

\* FillChildren handing each child the counter itself, not the counter + 1.
RECURSIVE FillChildrenSameCounter(_, _, _, _, _, _, _)
FillChildrenSameCounter(ns, child_map, parent_map, children, k, n2, path) ==
    IF k > Len(children) THEN FillResult(ns, n2, "ok")
    ELSE
        LET r == Fill(ns, child_map, parent_map, children[k][1], n2, path)
        IN  IF r.status # "ok" THEN r
            ELSE FillChildrenSameCounter(r.nodes, child_map, parent_map, children,
                                         k + 1, r.n, path)

Fill(ns, child_map, parent_map, i, n, path) ==
    IF i \in path THEN FillResult(ns, n, "diverged")
    ELSE
        LET e == FillEnter(ns, parent_map, i, n)
        IN  IF e.status # "ok" THEN e
            ELSE
                LET children == Get(child_map, At(e.nodes, i).node)
                IN  IF IsSome(children) THEN
                        LET c == FillChildren(e.nodes, child_map, parent_map,
                                              Unwrap(children), 1, n, path \cup {i})
                        IN  IF c.status # "ok" THEN c
                            ELSE CloseParent(c.nodes, i, c.n, Unwrap(children))
                    ELSE CloseLeaf(e.nodes, i, n)

\* for (i2, _child) in children { n2 = fill(.., *i2, n2 + 1)?; } from the
\* k-th child on.
FillChildren(ns, child_map, parent_map, children, k, n2, path) ==
    IF k > Len(children) THEN FillResult(ns, n2, "ok")
    ELSE
        LET r == Fill(ns, child_map, parent_map, children[k][1], n2 + 1, path)
        IN  IF r.status # "ok" THEN r
            ELSE FillChildren(r.nodes, child_map, parent_map, children, k + 1, r.n, path)

\* The numbering loop of build_index from position i on: st is
\* [nodes, parent_map].
RECURSIVE PidLoop(_, _)
PidLoop(st, i) ==
    IF i >= Len(st.nodes) THEN st
    ELSE PidLoop(
            [nodes |-> [st.nodes EXCEPT ![i + 1].pid = Some(i + 1)],
             parent_map |-> IF ~At(st.nodes, i).leaf
                            THEN Insert(st.parent_map, At(st.nodes, i).node, i + 1)
                            ELSE st.parent_map],
            i + 1)

\* Option<usize> ordering: None < Some(_).
OptLeq(a, b) == IF a = None THEN TRUE ELSE IF b = None THEN FALSE ELSE Unwrap(a) <= Unwrap(b)

\* Stable insertion of x into the pid-sorted sequence s.
RECURSIVE InsertByPid(_, _)
InsertByPid(s, x) ==
    IF s = <<>> THEN <<x>>
    ELSE IF OptLeq(s[Len(s)].pid, x.pid) THEN Append(s, x)
    ELSE Append(InsertByPid(SubSeq(s, 1, Len(s) - 1), x), s[Len(s)])

\* self.nodes.sort_by(|a, b| a.pid.cmp(&b.pid)), a stable sort.
RECURSIVE SortPrefixByPid(_, _)
SortPrefixByPid(ns, k) ==
    IF k = 0 THEN <<>> ELSE InsertByPid(SortPrefixByPid(ns, k - 1), ns[k])

SortByPid(ns) == SortPrefixByPid(ns, Len(ns))

\* BuildIndex starting the counter at 0.
BuildIndexFromZero(ns, r) ==
    LET st == PidLoop([nodes |-> ns, parent_map |-> EmptyMap], 0)
        f  == Fill(st.nodes, BuildChildMap(st.nodes), st.parent_map, r, 0, {})
    IN  IF f.status = "ok"
        THEN [nodes |-> SortByPid(f.nodes), status |-> "ok"]
        ELSE [nodes |-> f.nodes, status |-> f.status]

\* build_index on the graph (ns, r): [nodes, status].  On an error the `?`
\* returns before the sort, leaving self.nodes as mutated so far.
BuildIndex(ns, r) ==
    LET st == PidLoop([nodes |-> ns, parent_map |-> EmptyMap], 0)
        f  == Fill(st.nodes, BuildChildMap(st.nodes), st.parent_map, r, 1, {})
    IN  IF f.status = "ok"
        THEN [nodes |-> SortByPid(f.nodes), status |-> "ok"]
        ELSE [nodes |-> f.nodes, status |-> f.status]

\* ------------------------------------------------------------------ state

VARIABLES
    input,   \* records collected by the input boundary so far
    pc,      \* "reading", "graph", "indexed", "failed", "diverged"
    nodes,   \* Graph.nodes
    root,    \* Graph.root
    err,     \* error returned by the last fallible call, "ok" if none
    dag,     \* Option<bool>: result of is_dag on the current graph
    src,     \* the graph the last transform was applied to: <<nodes, root>>
    hist     \* names of the operations applied so far

vars == <<input, pc, nodes, root, err, dag, src, hist>>

Init ==
    /\ input = <<>>
    /\ pc = "reading"
    /\ nodes = <<>>
    /\ root = 0
    /\ err = "ok"
    /\ dag = None
    /\ src = <<>>
    /\ hist = <<>>

\* The identities used by the records read so far, as identity or as parent.
UsedIds(in) ==
    {in[k].node : k \in 1..Len(in)}
        \cup {Unwrap(in[k].parent_node) : k \in {j \in 1..Len(in) : IsSome(in[j].parent_node)}}

\* The identities a next use may name: those used already and the first
\* unused one.  The code reads identities only through equality and
\* concatenation, so inputs are drawn up to a renaming of IdSeq.
Usable(used) ==
    used \cup (IF Cardinality(used) < Len(IdSeq) THEN {IdSeq[Cardinality(used) + 1]} ELSE {})

\* The boundary deserializes one more record.  The label records the
\* record's ordinal in the input.
Push ==
    /\ pc = "reading"
    /\ Len(input) < MaxLen
    /\ \E id \in Usable(UsedIds(input)) :
       \E parent \in {None} \cup {Some(p) : p \in Usable(UsedIds(input) \cup {id})} :
       \E leaf \in BOOLEAN :
          input' = Append(input, RawNode(id, UsizeToString(Len(input) + 1), parent, leaf))
    /\ UNCHANGED <<pc, nodes, root, err, dag, src, hist>>

\* The same, the identities drawn freely from SepIds.
PushSep ==
    /\ pc = "reading"
    /\ Len(input) < MaxLenSep
    /\ \E id \in SepIds, parent \in {None} \cup {Some(p) : p \in SepIds}, leaf \in BOOLEAN :
          input' = Append(input, RawNode(id, UsizeToString(Len(input) + 1), parent, leaf))
    /\ UNCHANGED <<pc, nodes, root, err, dag, src, hist>>

\* The same, the identities drawn freely from PreIds.
PushPre ==
    /\ pc = "reading"
    /\ Len(input) < MaxLenPre
    /\ \E id \in PreIds, parent \in {None} \cup {Some(p) : p \in PreIds}, leaf \in BOOLEAN :
          input' = Append(input, RawNode(id, UsizeToString(Len(input) + 1), parent, leaf))
    /\ UNCHANGED <<pc, nodes, root, err, dag, src, hist>>

\* The same for an input that lists the root first and names as parent only
\* identities carried by earlier records: the shape of a DAG written top
\* down, a shared node repeated once for each of its parents.
PushDag ==
    /\ pc = "reading"
    /\ Len(input) < MaxLenDag
    /\ IF input = <<>>
       THEN \E leaf \in BOOLEAN :
               input' = <<RawNode(IdSeq[1], UsizeToString(1), None, leaf)>>
       ELSE \E id \in Usable(UsedIds(input)) :
            \E parent \in {Some(input[k].node) : k \in 1..Len(input)} :
            \E leaf \in BOOLEAN :
               input' = Append(input, RawNode(id, UsizeToString(Len(input) + 1), parent, leaf))
    /\ UNCHANGED <<pc, nodes, root, err, dag, src, hist>>

\* Graph::new(input)
New ==
    /\ pc = "reading"
    /\ LET r == GraphNew(input) IN
          /\ err' = r[1]
          /\ IF r[1] = "ok"
             THEN /\ pc' = "graph"
                  /\ nodes' = input
                  /\ root' = r[2]
             ELSE /\ pc' = "failed"
                  /\ UNCHANGED <<nodes, root>>
    /\ hist' = Append(hist, "new")
    /\ UNCHANGED <<input, dag, src>>

\* graph.is_dag(): a pure query, made before every transform as the callers
\* do; it changes no field of the graph.
CallIsDag ==
    /\ pc = "graph"
    /\ dag = None
    /\ dag' = Some(IsDag(nodes))
    /\ hist' = Append(hist, "is_dag")
    /\ UNCHANGED <<input, pc, nodes, root, err, src>>

\* graph = graph.complement_leaf()
CallComplementLeaf ==
    /\ pc = "graph"
    /\ IsSome(dag)
    /\ \A k \in 1..Len(hist) : hist[k] \notin {"complement_leaf", "dag_to_tree"}
    /\ nodes' = ComplementLeaf(nodes)
    /\ root' = 0
    /\ src' = <<nodes, root>>
    /\ dag' = None
    /\ hist' = Append(hist, "complement_leaf")
    /\ UNCHANGED <<input, pc, err>>

\* graph = graph.dag_to_tree()
CallDagToTree ==
    /\ pc = "graph"
    /\ IsSome(dag)
    /\ \A k \in 1..Len(hist) : hist[k] # "dag_to_tree"
    /\ LET r == DagToTree(nodes, root) IN
          IF r.status = "ok"
          THEN /\ nodes' = r.out
               /\ root' = 0
               /\ pc' = "graph"
          ELSE /\ pc' = "diverged"
               /\ UNCHANGED <<nodes, root>>
    /\ src' = <<nodes, root>>
    /\ dag' = None
    /\ hist' = Append(hist, "dag_to_tree")
    /\ UNCHANGED <<input, err>>

\* graph.build_index()
CallBuildIndex ==
    /\ pc = "graph"
    /\ IsSome(dag)
    /\ LET r == BuildIndex(nodes, root) IN
          /\ nodes' = r.nodes
          /\ pc' = CASE r.status = "ok" -> "indexed"
                     [] r.status = "diverged" -> "diverged"
                     [] OTHER -> "failed"
          /\ err' = IF r.status = "diverged" THEN err ELSE r.status
    /\ src' = <<nodes, root>>
    /\ hist' = Append(hist, "build_index")
    /\ UNCHANGED <<input, root, dag>>

Next ==
    \/ Push
    \/ New
    \/ CallIsDag
    \/ CallDagToTree
    \/ CallBuildIndex

Spec == Init /\ [][Next]_vars

\* The same program on inputs over SepIds.
NextSep ==
    \/ PushSep
    \/ New
    \/ CallIsDag
    \/ CallDagToTree
    \/ CallBuildIndex

SpecSep == Init /\ [][NextSep]_vars

\* The same program on inputs written top down.
NextDag ==
    \/ PushDag
    \/ New
    \/ CallIsDag
    \/ CallDagToTree
    \/ CallBuildIndex

SpecDag == Init /\ [][NextDag]_vars

\* The program with the optional leaf complementing pass.
NextLeaf ==
    \/ Push
    \/ New
    \/ CallIsDag
    \/ CallComplementLeaf
    \/ CallDagToTree
    \/ CallBuildIndex

SpecLeaf == Init /\ [][NextLeaf]_vars

\* The same on inputs over PreIds.
NextPre ==
    \/ PushPre
    \/ New
    \/ CallIsDag
    \/ CallComplementLeaf
    \/ CallDagToTree
    \/ CallBuildIndex

SpecPre == Init /\ [][NextPre]_vars

\* ============================================================== properties

\* The last operation applied.
Last == IF hist = <<>> THEN "none" ELSE hist[Len(hist)]

\* Graph::new, is_dag, build_index and nothing else.
IndexedDirectly == hist = <<"new", "is_dag", "build_index">>

\* 1-based positions of the records without a parent identity.
Parentless(ns) == {k \in 1..Len(ns) : ns[k].parent_node = None}

\* The position of the non-leaf node a node's parent identity names.
ParentPos(ns, k) ==
    CHOOSE j \in 1..Len(ns) : ~ns[j].leaf /\ ns[j].node = Unwrap(ns[k].parent_node)

\* The positions met from k by following parent identities, at most fuel
\* times.
RECURSIVE AncestorsOf(_, _, _)
AncestorsOf(ns, k, fuel) ==
    IF fuel = 0 \/ ns[k].parent_node = None THEN {}
    ELSE {ParentPos(ns, k)} \cup AncestorsOf(ns, ParentPos(ns, k), fuel - 1)

Ancestors(ns, k) == AncestorsOf(ns, k, Len(ns))

\* A valid tree: one parentless node, non-leaf identities unique, no leaf
\* identity equal to a non-leaf identity, every parent identity naming a
\* non-leaf node, no cycle.
ValidTree(ns) ==
    /\ Cardinality(Parentless(ns)) = 1
    /\ \A j, k \in 1..Len(ns) :
          (j # k /\ ~ns[j].leaf /\ ~ns[k].leaf) => ns[j].node # ns[k].node
    /\ \A j, k \in 1..Len(ns) :
          (ns[j].leaf /\ ~ns[k].leaf) => ns[j].node # ns[k].node
    /\ \A k \in 1..Len(ns) :
          IsSome(ns[k].parent_node) =>
              \E j \in 1..Len(ns) : ~ns[j].leaf /\ ns[j].node = Unwrap(ns[k].parent_node)
    /\ \A k \in 1..Len(ns) : k \notin Ancestors(ns, k)

\* C1: Graph::new fails with RootNodeNotFoundError exactly when no node is
\* parentless, with MultipleRootNodeError exactly when two or more are, and
\* otherwise succeeds with root the position of the one parentless node.
C1_NewRoot ==
    hist = <<"new">> =>
        /\ (err = "RootNodeNotFoundError") <=> (Cardinality(Parentless(input)) = 0)
        /\ (err = "MultipleRootNodeError") <=> (Cardinality(Parentless(input)) >= 2)
        /\ (Cardinality(Parentless(input)) = 1) <=> (pc = "graph" /\ err = "ok")
        /\ pc = "graph" => (nodes = input /\ Parentless(input) = {root + 1})

C1_Witness ==
    /\ hist = <<"new">>
    /\ pc = "graph"
    /\ root = 2
    /\ Len(input) = 3

\* C2: on a valid tree build_index succeeds and every node has lft < rgt,
\* every child lies strictly inside its parent, and two siblings have
\* disjoint [lft, rgt] ranges.
C2_Nesting ==
    (IndexedDirectly /\ ValidTree(input)) =>
        /\ pc = "indexed"
        /\ \A k \in 1..Len(nodes) :
              /\ IsSome(nodes[k].lft) /\ IsSome(nodes[k].rgt)
              /\ Unwrap(nodes[k].lft) < Unwrap(nodes[k].rgt)
        /\ \A c \in 1..Len(nodes) :
              IsSome(input[c].parent_node) =>
                  /\ Unwrap(nodes[ParentPos(input, c)].lft) < Unwrap(nodes[c].lft)
                  /\ Unwrap(nodes[c].rgt) < Unwrap(nodes[ParentPos(input, c)].rgt)
        /\ \A c, d \in 1..Len(nodes) :
              (c # d /\ input[c].parent_node = input[d].parent_node) =>
                  \/ Unwrap(nodes[c].rgt) < Unwrap(nodes[d].lft)
                  \/ Unwrap(nodes[d].rgt) < Unwrap(nodes[c].lft)

C2_Witness ==
    /\ IndexedDirectly /\ ValidTree(input) /\ pc = "indexed"
    /\ \E k \in 1..Len(nodes) : nodes[k].count = Some(2)
    /\ \E k \in 1..Len(nodes) : Cardinality(Ancestors(input, k)) = 2

\* The positions below k in the tree.
Descendants(ns, k) == {j \in 1..Len(ns) : k \in Ancestors(ns, j)}

\* C3: on a valid tree rgt - lft is odd and (rgt - lft - 1) / 2 is the number
\* of descendants of the node, at all levels.
C3_DescendantCount ==
    (IndexedDirectly /\ ValidTree(input) /\ pc = "indexed") =>
        \A k \in 1..Len(nodes) :
            /\ (Unwrap(nodes[k].rgt) - Unwrap(nodes[k].lft)) % 2 = 1
            /\ (Unwrap(nodes[k].rgt) - Unwrap(nodes[k].lft) - 1) \div 2
                   = Cardinality(Descendants(input, k))

C3_Witness ==
    /\ IndexedDirectly /\ ValidTree(input) /\ pc = "indexed"
    /\ \E k \in 1..Len(nodes) :
          /\ nodes[k].count = Some(1)
          /\ Cardinality(Descendants(input, k)) = 3

\* C4: whenever build_index succeeds on a collection for which is_dag is
\* false, a node whose leaf flag is true has rgt = lft + 1 and count = 0.
\* Stated for the leaves fill has reached (those with lft assigned).
C4_LeafClosed ==
    (pc = "indexed" /\ dag = Some(FALSE)) =>
        \A k \in 1..Len(nodes) :
            (nodes[k].leaf /\ IsSome(nodes[k].lft)) =>
                /\ nodes[k].rgt = Some(Unwrap(nodes[k].lft) + 1)
                /\ nodes[k].count = Some(0)

\* Some node's parent identity is the identity of no node.
Dangling(ns) ==
    \E k \in 1..Len(ns) :
        /\ IsSome(ns[k].parent_node)
        /\ \A j \in 1..Len(ns) : ns[j].node # Unwrap(ns[k].parent_node)

\* C5: an input in which some node's parent identity matches no node's
\* identity fails with ParentNodeNotFoundError when Graph::new is followed
\* by build_index.
C5_DanglingParentFails ==
    (IndexedDirectly /\ Dangling(input)) =>
        (pc = "failed" /\ err = "ParentNodeNotFoundError")

\* C6: whenever build_index succeeds on a collection for which is_dag is
\* false, the node at 0-based position i has pid i + 1, the root has no
\* parent_id, and every node with a parent identity has as parent_id the pid
\* of the non-leaf node carrying that identity.
C6_PositionIds ==
    (pc = "indexed" /\ dag = Some(FALSE)) =>
        /\ \A i \in 0..(Len(nodes) - 1) : At(nodes, i).pid = Some(i + 1)
        /\ At(nodes, root).parent_id = None
        /\ \A k \in 1..Len(nodes) :
              IsSome(nodes[k].parent_node) =>
                  \E j \in 1..Len(nodes) :
                      /\ ~nodes[j].leaf
                      /\ nodes[j].node = Unwrap(nodes[k].parent_node)
                      /\ nodes[k].parent_id = nodes[j].pid

NonLeaf(n) == ~n.leaf

\* C7: is_dag is true exactly when two non-leaf nodes carry the same
\* identity; removing the leaf nodes does not change its result.
C7_IsDagContract ==
    IsSome(dag) =>
        /\ Unwrap(dag) = (\E j, k \in 1..Len(nodes) :
                             /\ j # k
                             /\ ~nodes[j].leaf /\ ~nodes[k].leaf
                             /\ nodes[j].node = nodes[k].node)
        /\ Unwrap(dag) = IsDag(SelectSeq(nodes, NonLeaf))

C7_Witness ==
    /\ dag = Some(FALSE)
    /\ \E j, k \in 1..Len(nodes) :
          j # k /\ nodes[j].leaf /\ nodes[k].leaf /\ nodes[j].node = nodes[k].node
    /\ \E j, k \in 1..Len(nodes) :
          j # k /\ nodes[j].leaf /\ ~nodes[k].leaf /\ nodes[j].node = nodes[k].node

\* The parent identities of the nodes carrying identity id.
IdParents(ns, id) ==
    {Unwrap(ns[k].parent_node) :
        k \in {j \in 1..Len(ns) : ns[j].node = id /\ IsSome(ns[j].parent_node)}}

RECURSIVE UpClosure(_, _, _)
UpClosure(ns, S, fuel) ==
    IF fuel = 0 THEN S
    ELSE UpClosure(ns, S \cup UNION {IdParents(ns, x) : x \in S}, fuel - 1)

\* No identity is reachable from itself through parent references.
Acyclic(ns) ==
    \A k \in 1..Len(ns) :
        ns[k].node \notin UpClosure(ns, IdParents(ns, ns[k].node), Len(ns))

\* C8: for every acyclic collection accepted by Graph::new, is_dag is false
\* on the collection one dag_to_tree pass returns.
C8_TreeAfterOnePass ==
    (hist = <<"new", "is_dag", "dag_to_tree", "is_dag">> /\ Acyclic(input)) =>
        dag = Some(FALSE)

\* dag_to_tree has just returned, applied to the collection Graph::new
\* accepted.
Unfolded == hist = <<"new", "is_dag", "dag_to_tree">> /\ pc = "graph"

\* The 1-based position, in the collection dag_to_tree was applied to, of
\* the record an output node is a copy of (labels are copied unchanged and
\* name the record).
SrcPos(n) == CHOOSE s \in 1..Len(src[1]) : src[1][s].label = n.label

\* The identity an output node had before dag_to_tree.
SrcId(n) == src[1][SrcPos(n)].node

\* The number of child copies of the same original identity emitted before
\* the output position j (position 1 holds the root copy, not a child copy).
Earlier(j) == Cardinality({m \in 2..(j - 1) : SrcId(nodes[m]) = SrcId(nodes[j])})

\* C9: each emitted child copy is named from the count of earlier emissions
\* of its original identity, whatever their parents: a non-leaf copy with
\* count 0 keeps its identity and has no origin, a non-leaf copy with count
\* k >= 1 is named <original>__k with origin <original>, a leaf copy keeps
\* its identity and has no origin.
C9_Naming ==
    Unfolded =>
        \A j \in 2..Len(nodes) :
            IF nodes[j].leaf \/ Earlier(j) = 0
            THEN nodes[j].node = SrcId(nodes[j]) /\ nodes[j].origin = None
            ELSE /\ nodes[j].node = SrcId(nodes[j]) \o <<"_", "_">> \o UsizeToString(Earlier(j))
                 /\ nodes[j].origin = Some(SrcId(nodes[j]))

C9_Witness ==
    /\ Unfolded
    /\ \E j \in 2..Len(nodes) : nodes[j].leaf /\ Earlier(j) >= 1
    /\ \E j \in 2..Len(nodes) : ~nodes[j].leaf /\ Earlier(j) = 2

\* Identity X is carried by two non-leaf nodes with distinct parent
\* identities.
TwoParents(ns, X) ==
    \E j, k \in 1..Len(ns) :
        /\ j # k
        /\ ns[j].node = X /\ ns[k].node = X
        /\ ~ns[j].leaf /\ ~ns[k].leaf
        /\ IsSome(ns[j].parent_node) /\ IsSome(ns[k].parent_node)
        /\ ns[j].parent_node # ns[k].parent_node

\* The output holds exactly two non-leaf copies of X, named X and X__1, the
\* origin set (to X) only on the second.
TwoCopies(X) ==
    LET D == {j \in 1..Len(nodes) : ~nodes[j].leaf /\ SrcId(nodes[j]) = X}
    IN  /\ Cardinality(D) = 2
        /\ \E f, s \in D :
              /\ nodes[f].node = X /\ nodes[f].origin = None
              /\ nodes[s].node = X \o <<"_", "_", "1">> /\ nodes[s].origin = Some(X)

\* C10 as stated: whenever a non-leaf identity X is referenced by two
\* distinct parents, the output holds exactly the copies X and X__1.
C10_TwoParentsTwoCopies ==
    Unfolded =>
        \A k \in 1..Len(src[1]) :
            TwoParents(src[1], src[1][k].node) => TwoCopies(src[1][k].node)

RECURSIVE SumOver(_, _, _, _, _)

\* The number of paths of parent references from the root position r to the
\* 1-based position k: the number of copies dag_to_tree emits of it.
RECURSIVE PathCount(_, _, _, _)
PathCount(ns, r, k, fuel) ==
    IF k = r + 1 THEN 1
    ELSE IF fuel = 0 \/ ns[k].parent_node = None THEN 0
    ELSE SumOver(ns, r, {m \in 1..Len(ns) : ns[m].node = Unwrap(ns[k].parent_node)},
                 fuel - 1, 0)

SumOver(ns, r, S, fuel, acc) ==
    IF S = {} THEN acc
    ELSE LET m == CHOOSE x \in S : TRUE
         IN  SumOver(ns, r, S \ {m}, fuel, acc + PathCount(ns, r, m, fuel))

\* Exactly two nodes carry X, both non-leaf, with distinct parent
\* identities, and each lies on exactly one path from the root.
TwoParentsOnce(ns, r, X) ==
    /\ TwoParents(ns, X)
    /\ Cardinality({k \in 1..Len(ns) : ns[k].node = X}) = 2
    /\ \A k \in 1..Len(ns) : ns[k].node = X => PathCount(ns, r, k, Len(ns)) = 1

\* C10 amended: when exactly two nodes carry X, both non-leaf with distinct
\* parent identities and each on exactly one path from the root, the output
\* holds exactly two non-leaf copies of X, named X and X__1, the origin set
\* (to X) only on the second.
C10_TwoParentsOnceTwoCopies ==
    Unfolded =>
        \A k \in 1..Len(src[1]) :
            TwoParentsOnce(src[1], src[2], src[1][k].node) => TwoCopies(src[1][k].node)

C10_Witness ==
    /\ Unfolded
    /\ \E k \in 1..Len(src[1]) :
          /\ TwoParentsOnce(src[1], src[2], src[1][k].node)
          /\ TwoCopies(src[1][k].node)

\* The 1-based positions of the output nodes that are copies of the record
\* at position k of the collection the transform was applied to.
Copies(k) == {j \in 1..Len(nodes) : SrcPos(nodes[j]) = k}

\* The number of paths from the root to the records at positions 1..k.
RECURSIVE PathTotal(_, _, _)
PathTotal(ns, r, k) ==
    IF k = 0 THEN 0 ELSE PathTotal(ns, r, k - 1) + PathCount(ns, r, k, Len(ns))

\* C11: on an acyclic collection dag_to_tree emits as many copies of a node
\* as there are paths from the root to it, and the output size is the total
\* number of such paths.
C11_CopyPerPath ==
    (Unfolded /\ Acyclic(src[1])) =>
        /\ \A k \in 1..Len(src[1]) :
              Cardinality(Copies(k)) = PathCount(src[1], src[2], k, Len(src[1]))
        /\ Len(nodes) = PathTotal(src[1], src[2], Len(src[1]))

\* A node listed under two parent records, emitted twice: the output is one
\* longer than the input.
C11_Witness ==
    /\ Unfolded /\ Acyclic(src[1])
    /\ \E c \in 1..Len(src[1]) :
          /\ PathCount(src[1], src[2], c, Len(src[1])) = 2
          /\ Cardinality(Copies(c)) = 2
    /\ Len(nodes) = Len(src[1]) + 1

\* complement_leaf has just returned, applied to the collection Graph::new
\* accepted.
Complemented == hist = <<"new", "is_dag", "complement_leaf">>

\* "c__" + id
Wrapped(id) == <<"c", "_", "_">> \o id

\* The output holds a wrapper for the record n: a non-leaf node named
\* "c__" + n.node under "c__" + n.parent_node.
HasWrapper(n) ==
    \E j \in 1..Len(nodes) :
        /\ ~nodes[j].leaf
        /\ nodes[j].node = Wrapped(n.node)
        /\ nodes[j].parent_node =
               (IF IsSome(n.parent_node) THEN Some(Wrapped(Unwrap(n.parent_node))) ELSE None)

\* C12: every node of a collection Graph::new accepted is the source of at
\* least one node of the output of dag_to_tree, and of at least one wrapper
\* of the output of complement_leaf.
C12_NoNodeDropped ==
    /\ Unfolded => \A k \in 1..Len(src[1]) : Copies(k) # {}
    /\ Complemented => \A k \in 1..Len(src[1]) : HasWrapper(src[1][k])


\* The output holds a leaf copy of the record n: a leaf named n.node under
\* "c__" + n.node.
HasLeafCopy(n) ==
    \E j \in 1..Len(nodes) :
        /\ nodes[j].leaf
        /\ nodes[j].node = n.node
        /\ nodes[j].parent_node = Some(Wrapped(n.node))

\* The output node o is the wrapper or the leaf copy of the record n, the
\* label as in n.
WrapperOrCopyOf(o, n) ==
    /\ o.label = n.label
    /\ \/ /\ ~o.leaf
          /\ o.node = Wrapped(n.node)
          /\ o.parent_node =
                (IF IsSome(n.parent_node) THEN Some(Wrapped(Unwrap(n.parent_node))) ELSE None)
       \/ /\ o.leaf
          /\ o.node = n.node
          /\ o.parent_node = Some(Wrapped(n.node))

\* C13: for every input node N the output of complement_leaf holds a
\* non-leaf wrapper "c__" + N.node under "c__" + N.parent_node (parentless
\* for the root) and a leaf named N.node under that wrapper, whatever N.leaf
\* was; every output node is the wrapper or the leaf copy of an input node
\* and carries that node's label.
C13_WrapperAndLeaf ==
    Complemented =>
        /\ \A k \in 1..Len(src[1]) : HasWrapper(src[1][k]) /\ HasLeafCopy(src[1][k])
        /\ \A j \in 1..Len(nodes) :
              \E k \in 1..Len(src[1]) : WrapperOrCopyOf(nodes[j], src[1][k])


\* The (identity, parent identity) pair of a node.
Key(n) == <<n.node, n.parent_node>>

\* The pair of the m-th push complement_leaf makes on the collection ns: the
\* wrapper of record (m + 1) / 2 when m is odd, its leaf copy when m is even.
PushedKey(ns, m) ==
    LET n == ns[(m + 1) \div 2]
    IN  IF m % 2 = 1
        THEN <<Wrapped(n.node),
               IF IsSome(n.parent_node) THEN Some(Wrapped(Unwrap(n.parent_node))) ELSE None>>
        ELSE <<n.node, Some(Wrapped(n.node))>>

\* The first push that carries the pair of the output node at position j.
FirstPush(ns, j) ==
    CHOOSE m \in 1..(2 * Len(ns)) :
        /\ PushedKey(ns, m) = Key(nodes[j])
        /\ \A x \in 1..(m - 1) : PushedKey(ns, x) # Key(nodes[j])

\* C14: the output of complement_leaf holds no two nodes with the same
\* (identity, parent identity) pair, it holds every pair pushed, in the order
\* of the first push of each, and for two sibling leaves that share identity
\* and parent identity it holds one node with their wrapper's pair, not two.
C14_DedupKeepsOrder ==
    Complemented =>
        /\ \A i, j \in 1..Len(nodes) : i # j => Key(nodes[i]) # Key(nodes[j])
        /\ {Key(nodes[j]) : j \in 1..Len(nodes)}
              = {PushedKey(src[1], m) : m \in 1..(2 * Len(src[1]))}
        /\ \A i, j \in 1..Len(nodes) :
              i < j => FirstPush(src[1], i) < FirstPush(src[1], j)
        /\ \A k, l \in 1..Len(src[1]) :
              (/\ k # l
               /\ src[1][k].leaf /\ src[1][l].leaf
               /\ Key(src[1][k]) = Key(src[1][l])) =>
                  Cardinality({j \in 1..Len(nodes) :
                                  Key(nodes[j]) = PushedKey(src[1], 2 * k - 1)}) = 1

\* A valid tree with two sibling leaves sharing identity and parent identity
\* and a later node with another pair: one wrapper for the two, the later
\* wrapper after it.
C14_Witness ==
    /\ Complemented
    /\ ValidTree(src[1])
    /\ \E k, l \in 1..Len(src[1]) :
          /\ k < l
          /\ src[1][k].leaf /\ src[1][l].leaf
          /\ IsSome(src[1][k].parent_node)
          /\ Key(src[1][k]) = Key(src[1][l])
          /\ \E m \in (l + 1)..Len(src[1]) :
                \A x \in 1..(m - 1) : Key(src[1][x]) # Key(src[1][m])
    /\ Len(nodes) < 2 * Len(src[1])


\* C15: complement_leaf returns as many nodes as the input has distinct
\* (identity, parent identity) pairs, one wrapper each, plus distinct
\* identities, one leaf copy each.
C15_OutputSize ==
    Complemented =>
        Len(nodes) = Cardinality({Key(src[1][k]) : k \in 1..Len(src[1])})
                        + Cardinality({src[1][k].node : k \in 1..Len(src[1])})


\* C16: whatever the position of the root in the collection Graph::new
\* accepted, the first two nodes complement_leaf returns are the root's
\* wrapper and the root's leaf copy, and the node at the root position it
\* records is the parentless wrapper of the input's root.
C16_RootPairFirst ==
    Complemented =>
        LET r == At(src[1], src[2])
        IN  /\ Len(nodes) >= 2
            /\ ~nodes[1].leaf
            /\ nodes[1].node = Wrapped(r.node)
            /\ nodes[1].parent_node = None
            /\ nodes[2].leaf
            /\ nodes[2].node = r.node
            /\ nodes[2].parent_node = Some(Wrapped(r.node))
            /\ ~At(nodes, root).leaf
            /\ At(nodes, root).node = Wrapped(r.node)
            /\ At(nodes, root).parent_node = None


\* C17: on a valid tree build_index numbers siblings in collection order: of
\* two children of one parent the earlier in the collection has its rgt
\* below the lft of the later, and the first child of a parent has
\* lft = parent's lft + 1.
C17_SiblingOrder ==
    (IndexedDirectly /\ ValidTree(input)) =>
        /\ pc = "indexed"
        /\ \A c, d \in 1..Len(nodes) :
              (c < d /\ IsSome(input[c].parent_node)
                     /\ input[c].parent_node = input[d].parent_node) =>
                  Unwrap(nodes[c].rgt) < Unwrap(nodes[d].lft)
        /\ \A c \in 1..Len(nodes) :
              (/\ IsSome(input[c].parent_node)
               /\ \A b \in 1..(c - 1) : input[b].parent_node # input[c].parent_node) =>
                  nodes[c].lft = Some(Unwrap(nodes[ParentPos(input, c)].lft) + 1)

\* Three siblings, listed before their parent.
C17_Witness ==
    /\ IndexedDirectly /\ ValidTree(input) /\ pc = "indexed"
    /\ \E b, c, d \in 1..Len(nodes) :
          /\ b < c /\ c < d
          /\ IsSome(input[b].parent_node)
          /\ input[b].parent_node = input[c].parent_node
          /\ input[c].parent_node = input[d].parent_node
          /\ ParentPos(input, b) > d
          /\ Unwrap(nodes[b].rgt) < Unwrap(nodes[c].lft)
          /\ Unwrap(nodes[c].rgt) < Unwrap(nodes[d].lft)


\* C18: on a valid tree of n nodes build_index gives the root lft = 1 and
\* rgt = 2n; a single-node input gets lft = 1, rgt = 2, count = 0.
C18_RootSpan ==
    (IndexedDirectly /\ ValidTree(input)) =>
        /\ pc = "indexed"
        /\ At(nodes, root).lft = Some(1)
        /\ At(nodes, root).rgt = Some(2 * Len(input))
        /\ Len(input) = 1 =>
              (nodes[1].lft = Some(1) /\ nodes[1].rgt = Some(2) /\ nodes[1].count = Some(0))

\* A valid tree of MaxLen nodes, three levels deep, the root not listed first.
C18_Witness ==
    /\ IndexedDirectly /\ ValidTree(input) /\ pc = "indexed"
    /\ Len(input) = MaxLen
    /\ root # 0
    /\ \E k \in 1..Len(input) : Cardinality(Ancestors(input, k)) = 2
    /\ At(nodes, root).rgt = Some(2 * MaxLen)


\* C19: when build_index returns ParentNodeNotFoundError, no node of the
\* collection has had pid, parent_id, lft, rgt or count assigned by the
\* call: the collection is as it was before.
C19_NoPartialResult ==
    (Last = "build_index" /\ pc = "failed" /\ err = "ParentNodeNotFoundError") =>
        \A k \in 1..Len(nodes) :
            /\ nodes[k].pid = src[1][k].pid
            /\ nodes[k].parent_id = src[1][k].parent_id
            /\ nodes[k].lft = src[1][k].lft
            /\ nodes[k].rgt = src[1][k].rgt
            /\ nodes[k].count = src[1][k].count


\* An acyclic collection with its single root first in which every parent
\* identity is the identity of a non-leaf node; non-leaf identities may
\* repeat.
RootFirstDag(ns) ==
    /\ Parentless(ns) = {1}
    /\ Acyclic(ns)
    /\ \A k \in 1..Len(ns) :
          IsSome(ns[k].parent_node) =>
              \E j \in 1..Len(ns) : ~ns[j].leaf /\ ns[j].node = Unwrap(ns[k].parent_node)

\* Graph::new, complement_leaf, dag_to_tree, is_dag, build_index, with the
\* is_dag queries the callers make in between.
Pipeline ==
    <<"new", "is_dag", "complement_leaf", "is_dag", "dag_to_tree", "is_dag", "build_index">>

\* C20: on an acyclic input with its single root first and every parent
\* identity naming a non-leaf node, the pipeline Graph::new, complement_leaf,
\* dag_to_tree, build_index succeeds, is_dag is false before the indexing,
\* every output node has lft and rgt, and every node but the root lies
\* strictly inside the node whose pid is its parent_id.
C20_PipelineNests ==
    RootFirstDag(input) =>
        /\ hist = SubSeq(Pipeline, 1, 5) => pc = "graph"
        /\ hist = SubSeq(Pipeline, 1, 6) => dag = Some(FALSE)
        /\ hist = Pipeline =>
              /\ pc = "indexed"
              /\ \A k \in 1..Len(nodes) : IsSome(nodes[k].lft) /\ IsSome(nodes[k].rgt)
              /\ \A k \in 1..Len(nodes) :
                    k # root + 1 =>
                        \E j \in 1..Len(nodes) :
                            /\ IsSome(nodes[k].parent_id)
                            /\ nodes[j].pid = nodes[k].parent_id
                            /\ Unwrap(nodes[j].lft) < Unwrap(nodes[k].lft)
                            /\ Unwrap(nodes[k].rgt) < Unwrap(nodes[j].rgt)


\* For each output position, the 0-based output position of the copy it was
\* expanded from (None for the root copy).
ExpandedFrom == DagToTree(src[1], src[2]).from

\* The number of expansions between the root copy and the output node at
\* the 1-based position j.
RECURSIVE Depth(_)
Depth(j) == IF ExpandedFrom[j] = None THEN 0 ELSE 1 + Depth(Unwrap(ExpandedFrom[j]) + 1)

\* C21: the output of dag_to_tree starts with the copy of the root and the
\* recorded root is 0; every other output node carries as parent identity
\* the identity, renamed or not, of the output node it was expanded from,
\* which is a copy of a record carrying the parent identity the node had in
\* the input and sits at a strictly smaller position; the depth never
\* decreases along the output.
C21_BreadthFirst ==
    Unfolded =>
        /\ root = 0
        /\ nodes[1] = At(src[1], src[2])
        /\ \A j \in 2..Len(nodes) :
              LET p == Unwrap(ExpandedFrom[j]) + 1
              IN  /\ p < j
                  /\ nodes[j].parent_node = Some(nodes[p].node)
                  /\ src[1][SrcPos(nodes[j])].parent_node = Some(SrcId(nodes[p]))
        /\ \A j \in 1..(Len(nodes) - 1) : Depth(j) <= Depth(j + 1)

\* A renamed copy with a child below it, after a node of depth 1.
C21_Witness ==
    /\ Unfolded
    /\ src[2] # 0
    /\ \E j \in 2..Len(nodes) :
          /\ Depth(j) = 2
          /\ IsSome(nodes[Unwrap(ExpandedFrom[j]) + 1].origin)
          /\ nodes[j].parent_node # src[1][SrcPos(nodes[j])].parent_node


\* C22: dag_to_tree and build_index return on every collection with one
\* parentless node in which no identity is reachable from itself through
\* parent references: the queue of dag_to_tree runs empty and the recursion
\* of fill ends.
C22_Terminates ==
    (/\ Last \in {"dag_to_tree", "build_index"}
     /\ Cardinality(Parentless(src[1])) = 1
     /\ Acyclic(src[1])) =>
        pc # "diverged"

\* Both have returned in turn, dag_to_tree on a collection with a node
\* reached twice, build_index on the longer collection dag_to_tree returned.
C22_Witness ==
    /\ hist = <<"new", "is_dag", "dag_to_tree", "is_dag", "build_index">>
    /\ Acyclic(input) /\ Acyclic(src[1])
    /\ pc = "indexed"
    /\ Len(nodes) = Len(input) + 1
    /\ \E k \in 1..Len(nodes) : IsSome(nodes[k].origin)
    /\ \A k \in 1..Len(nodes) : IsSome(nodes[k].rgt)


====
